---- MODULE Spec2Model ----
(***************************************************************************)
(* doi2pdf (src/main.py): the retrieval orchestrator doi_to_pdf_downloader, *)
(* the stages it calls (get_paper_metadata, download_pdf_content,           *)
(* retrieve_scihub_pdf_link_selenium) and the batch / single-item runner    *)
(* in main, as one sequential state machine.                                *)
(*                                                                          *)
(* Strings are sequences of tokens: "https://doi.org/10.1000/xyz1" is       *)
(* <<"https://doi.org/", "10.1000/xyz1">>.  Python's None and the empty     *)
(* string are both falsy and both the empty sequence.                       *)
(***************************************************************************)
EXTENDS Naturals, Sequences, FiniteSets

\* ------------------------------------------------------------------ bounds

\* The longest input file the batch runner is given.
MaxItems == 2
\* The most iframes a rendered fallback page carries.
MaxIframes == 2

\* ------------------------------------------------------------------ strings

None == <<>>

Truthy(s) == s # None

HttpsDoiPrefix == "https://doi.org/"

HttpDoiPrefix == "http://doi.org/"

startswith(s, p) == Len(s) > 0 /\ s[1] = p

\* s[len(prefix):] for a one-token prefix
StripFirst(s) == SubSeq(s, 2, Len(s))

Contains(s, tok) == \E k \in 1..Len(s) : s[k] = tok

\* the tokens after the last occurrence of a token of toks (str.split(x)[-1]);
\* the whole string when there is none
AfterLast(s, toks) ==
    IF \E k \in 1..Len(s) : s[k] \in toks
    THEN LET k == CHOOSE j \in 1..Len(s) :
                     /\ s[j] \in toks
                     /\ \A m \in (j + 1)..Len(s) : s[m] \notin toks
         IN SubSeq(s, k + 1, Len(s))
    ELSE s

\* str.replace(tok, "") for each token of toks
Without(s, toks) == SelectSeq(s, LAMBDA t : t \notin toks)

\* ------------------------------------------------------------------ inputs

Doi1 == "10.1000/xyz1"

DoiInputs == { None, <<Doi1>>, <<HttpsDoiPrefix, Doi1>>, <<HttpDoiPrefix, Doi1>> }

NameInputs == { None, <<"Example Paper">> }

UrlInputs ==
    { None,
      <<HttpsDoiPrefix, Doi1>>,
      <<"https://arxiv.org/", "abs/", "1234.5678">>,
      <<"https://arxiv.org/", "pdf/", "1234.5678", ".pdf">>,
      <<"https://example.org/paper">> }

\* the lines of an input file: stripped and non-empty (main, line 712)
BatchIdentifiers == DoiInputs \ { None }

\* the arguments doi_to_pdf_downloader is called with as a function: no
\* identifier, one identifier, and two combinations that show the precedence
\* of the DOI over the title and of the title over the URL
DirectInputs ==
    { <<d, None, None>> : d \in DoiInputs }
    \cup { <<None, n, None>> : n \in NameInputs }
    \cup { <<None, None, u>> : u \in UrlInputs }
    \cup { <<<<Doi1>>, <<"Example Paper">>, <<"https://example.org/paper">>>>,
           <<None, <<"Example Paper">>, <<"https://example.org/paper">>>> }

\* ------------------------------------------------------------------ metadata

base_api_url == <<"https://api.openalex.org/works">>

DoiOrgTokens == { HttpsDoiPrefix, HttpDoiPrefix }

IsArxivUrl(u) ==
    \E k \in 1..(Len(u) - 1) :
        /\ u[k] \in { "https://arxiv.org/", "http://arxiv.org/" }
        /\ u[k + 1] \in { "abs/", "pdf/" }

\* the DOI as queried: the doi.org prefix of either scheme is dropped
NormalizeDoi(doi_in) ==
    IF startswith(doi_in, HttpsDoiPrefix) THEN StripFirst(doi_in)
    ELSE IF startswith(doi_in, HttpDoiPrefix) THEN StripFirst(doi_in)
    ELSE doi_in

\* variant: the identifiers are not checked, the URL is looked up as it is
ApiQueryUnchecked(doi_in, name_in, url_in) ==
    [kind |-> "lookup", api_url |-> base_api_url \o <<"/">> \o url_in]

\* lines 70-107: the works endpoint queried, or the ValueError when no
\* identifier is populated
ApiQuery(doi_in, name_in, url_in) ==
    IF Truthy(doi_in)
    THEN [kind |-> "lookup",
          api_url |-> base_api_url \o <<"/", HttpsDoiPrefix>> \o NormalizeDoi(doi_in)]
    ELSE IF Truthy(name_in)
    THEN [kind |-> "search", api_url |-> base_api_url]
    ELSE IF Truthy(url_in)
    THEN IF \E t \in DoiOrgTokens : Contains(url_in, t)
         THEN [kind |-> "lookup",
               api_url |-> base_api_url \o <<"/", HttpsDoiPrefix>>
                               \o AfterLast(url_in, DoiOrgTokens)]
         ELSE IF IsArxivUrl(url_in)
         THEN [kind |-> "lookup",
               api_url |-> base_api_url \o <<"/", "arxiv:">>
                               \o Without(AfterLast(url_in,
                                              { "https://arxiv.org/", "http://arxiv.org/" }),
                                          { "abs/", ".pdf" })]
         ELSE [kind |-> "lookup", api_url |-> base_api_url \o <<"/">> \o url_in]
    ELSE [kind |-> "ValueError", api_url |-> None]

\* a work object of the metadata service: its doi, open_access.oa_url,
\* primary_location.is_oa and best_oa_location.pdf_url (absent = None / FALSE)
WorkDois == { None, <<HttpsDoiPrefix, Doi1>> }

OaUrls == { None, <<"https://good.example/paper.pdf">>,
            <<"https://arxiv.org/", "abs/", "1234.5678">>,
            <<"https://arxiv.org/", "abs/">> }

BestPdfUrls == { None, <<"https://best.example/paper.pdf">> }

Works == [doi : WorkDois, oa_url : OaUrls, prim_is_oa : BOOLEAN, best_pdf_url : BestPdfUrls]

NoFields == [doi |-> None, oa_url |-> None, prim_is_oa |-> FALSE, best_pdf_url |-> None]

\* what the service can answer: a transport/HTTP error, a body that is not
\* JSON, JSON that is not an object, the empty object, a search answer with
\* no hit, a search answer with one hit, a work object
MetadataResponses ==
    { [kind |-> k, work |-> NoFields] :
          k \in { "request_error", "bad_json", "not_object", "empty", "search_zero" } }
    \cup { [kind |-> k, work |-> w] : k \in { "search_hit", "work" }, w \in Works }

\* lines 140-182: open_access.oa_url first; best_oa_location.pdf_url is only
\* looked at under a primary_location that is open access
SelectPdfUrl(w) ==
    IF Truthy(w.oa_url) THEN w.oa_url
    ELSE IF w.prim_is_oa /\ Truthy(w.best_pdf_url) THEN w.best_pdf_url
    ELSE None

\* variant: the candidate URL is never rewritten
CorrectArxivNever(pdf_url) == pdf_url

\* lines 184-194: an arXiv abstract URL becomes the direct PDF URL
CorrectArxiv(pdf_url) ==
    IF \E k \in 1..(Len(pdf_url) - 1) :
           pdf_url[k] \in { "https://arxiv.org/", "http://arxiv.org/" } /\ pdf_url[k + 1] = "abs/"
    THEN LET k == CHOOSE j \in 1..(Len(pdf_url) - 1) :
                      pdf_url[j] \in { "https://arxiv.org/", "http://arxiv.org/" }
                      /\ pdf_url[j + 1] = "abs/"
         IN IF k + 2 <= Len(pdf_url) /\ pdf_url[k + 2] # "/"
            THEN <<"https://arxiv.org/", "pdf/", pdf_url[k + 2], ".pdf">>
            ELSE pdf_url
    ELSE pdf_url

\* lines 132-134: only the https prefix is dropped from the record's doi
FinalDoi(w) == IF startswith(w.doi, HttpsDoiPrefix) THEN StripFirst(w.doi) ELSE w.doi

MetaRaise(kind) == [kind |-> kind, final_doi |-> None, pdf_url |-> None, api_url |-> None]

MetaReturn(w, api_url) ==
    [kind |-> "ok", final_doi |-> FinalDoi(w), pdf_url |-> CorrectArxiv(SelectPdfUrl(w)),
     api_url |-> api_url]

\* get_paper_metadata: the tuple it returns, or the exception it raises
get_paper_metadata(doi_in, name_in, url_in, resp) ==
    IF ApiQuery(doi_in, name_in, url_in).kind = "ValueError" THEN MetaRaise("ValueError")
    ELSE IF resp.kind = "request_error" THEN MetaRaise("NotFoundError")
    ELSE IF resp.kind = "bad_json" THEN MetaRaise("ValueError")
    ELSE IF resp.kind = "not_object" THEN MetaRaise("Fault")
    ELSE LET by_name == Truthy(name_in)
         IN IF by_name /\ resp.kind # "search_hit" THEN MetaRaise("NotFoundError")
            ELSE IF by_name THEN MetaReturn(resp.work, ApiQuery(doi_in, name_in, url_in).api_url)
            ELSE IF resp.kind = "empty" THEN MetaRaise("NotFoundError")
            ELSE IF resp.kind = "work" THEN MetaReturn(resp.work, ApiQuery(doi_in, name_in, url_in).api_url)
            ELSE MetaReturn(NoFields, ApiQuery(doi_in, name_in, url_in).api_url)

\* ------------------------------------------------------------------ content fetch

ContentTypes == { "application/pdf", "application/octet-stream", "text/html" }

\* a body is a sequence of chunks of at most 1024 bytes
Bodies == { <<>>, <<"%PDF-1.4">>, <<"%PDF-1.4", "more">>, <<"<html>">> }

PdfSignature(chunk) == chunk \in { "%PDF-1.4" }

DownloadResponses ==
    { [kind |-> k, content_type |-> "text/html", body |-> <<>>] : k \in { "request_error", "fault" } }
    \cup [kind : { "http" }, content_type : ContentTypes, body : Bodies]

\* variant: only the declared content type decides
AcceptedBytesByTypeOnly(resp) ==
    IF resp.content_type \notin { "application/pdf", "application/octet-stream" }
    THEN None
    ELSE resp.body

\* lines 380-399: the bytes accepted, or None when NotFoundError is raised
AcceptedBytes(resp) ==
    IF resp.content_type \notin { "application/pdf", "application/octet-stream" }
    THEN IF Len(resp.body) > 0 /\ PdfSignature(resp.body[1])
         THEN <<resp.body[1]>> \o SubSeq(resp.body, 2, Len(resp.body))
         ELSE None
    ELSE resp.body

\* download_pdf_content: "ok" with the bytes, NotFoundError, or a fault that
\* is no NotFoundError
download_pdf_content(resp) ==
    IF resp.kind = "request_error" THEN [kind |-> "NotFoundError", bytes |-> None]
    ELSE IF resp.kind = "fault" THEN [kind |-> "Fault", bytes |-> None]
    ELSE IF Truthy(AcceptedBytes(resp)) THEN [kind |-> "ok", bytes |-> AcceptedBytes(resp)]
    ELSE [kind |-> "NotFoundError", bytes |-> None]

\* ------------------------------------------------------------------ status

LogStatuses == { "SUCCESS", "FAILURE", "ERROR", "CRITICAL_ERROR", "WARNING" }

\* doi_to_pdf_downloader._log: the status of summary_data after a log call
\* of the given severity
Log(cur, severity) ==
    IF severity \in LogStatuses /\ cur # "SUCCESS" THEN severity ELSE cur

\* lines 255 and 557: the message of the explicit-unavailability NotFoundError
Marker == "Sci-Hub does not have the document"

\* lines 556-561: the orchestrator's handler of a NotFoundError of stage 2
OnFallbackNotFound(cur, msg) ==
    Log(IF msg = Marker
        THEN "FAILURE_SCIHUB_NOT_FOUND"
        ELSE "FAILURE_SCIHUB_DOWNLOAD_ERROR", "ERROR")

\* lines 565-567: the handler of any other exception of stage 2
OnFallbackFault(cur) == "FAILURE_SCIHUB_UNEXPECTED_ERROR"

\* variant: sys.exit(1) whatever the mode
ExitsAlways(batch) == TRUE

\* variant: no failure ends the process
ExitsNever(batch) == FALSE

\* lines 526, 531, 602, 607: sys.exit(1) unless in batch mode
ExitsOnFailure(batch) == ~batch

\* variant: the fallback does not look at the document already obtained
NeedsFallbackIgnoringContent(content, doi) == Truthy(doi)

\* variant: the fallback does not look at the DOI
NeedsFallbackIgnoringDoi(content, doi) == ~Truthy(content)

\* line 535: the fallback is tried without a document and with a DOI
NeedsFallback(content, doi) == (~Truthy(content)) /\ Truthy(doi)

\* variant: the extractor is handed the input DOI, not the resolved one
FallbackDoiAsGiven(doi, given_doi) == given_doi

\* line 541: the DOI handed to the extractor
FallbackDoi(doi, given_doi) == doi

\* variant: no DOI is kept when the metadata lookup fails
MetadataFailureDoiDropped(given_doi) == None

\* line 519: the DOI kept when the metadata lookup of a DOI input fails
MetadataFailureDoi(given_doi) == given_doi

SCI_HUB_URL == <<"https:", "//", "sci-hub.mksa.top", "/">>

\* str.rstrip('/')
rstrip_slash(s) == IF Len(s) > 0 /\ s[Len(s)] = "/" THEN SubSeq(s, 1, Len(s) - 1) ELSE s

ScihubPage(base, doi) == rstrip_slash(base) \o <<"/">> \o doi

\* ------------------------------------------------------------------ rendered page

\* the src attributes a rendered page can carry: protocol-relative, relative,
\* absolute, and an absolute one that is no document
PdfLinks ==
    { <<"//", "cdn.example/p", ".pdf">>,
      <<"/", "downloads/p", ".pdf">>,
      <<"https:", "//", "cdn.example/p", ".pdf">> }

OtherLinks == { <<"https:", "//", "ads.example/frame">> }

IframeSrcs == { None } \cup PdfLinks \cup OtherLinks

\* ".pdf" in src_attr.lower()
HasPdfMarker(src) == Contains(src, ".pdf")

\* lines 286-291: the first iframe src that carries the marker
FirstPdfIframe(iframes) ==
    IF \E k \in 1..Len(iframes) : HasPdfMarker(iframes[k])
    THEN iframes[CHOOSE k \in 1..Len(iframes) :
                     /\ HasPdfMarker(iframes[k])
                     /\ \A m \in 1..(k - 1) : ~HasPdfMarker(iframes[m])]
    ELSE None

\* urljoin(base, link) for a link without a scheme
urljoin(base, link) ==
    rstrip_slash(base) \o <<"/">> \o (IF startswith(link, "/") THEN StripFirst(link) ELSE link)

\* the URL the browser is at after the page load, when a redirect took it to
\* another host
RedirectedUrl == <<"https:", "//", "mirror.example", "/">>

\* variant: a relative link is resolved against the browser's current URL
ResolveLinkAgainstCurrentUrl(base, link) ==
    IF startswith(link, "//") THEN <<"https:">> \o link
    ELSE IF ~(startswith(link, "https:") \/ startswith(link, "http:"))
    THEN urljoin(RedirectedUrl, link)
    ELSE link

\* variant: the link is lost
ResolveLinkToNothing(base, link) == None

\* lines 299-304
ResolveLink(base, link) ==
    IF startswith(link, "//") THEN <<"https:">> \o link
    ELSE IF ~(startswith(link, "https:") \/ startswith(link, "http:")) THEN urljoin(base, link)
    ELSE link

\* ------------------------------------------------------------------ state

VARIABLES
    mode,                     \* how the program is entered: batch, single, direct
    scihub_retrieval_method,  \* args.scihub_method
    delay,                    \* args.delay
    summary_file_path,        \* TRUE when the summary file was initialised
    total_items,              \* len(identifiers_to_process)
    main_pc,                  \* position in main
    i,                        \* number of the item being processed (1-based)
    processing_summaries,     \* the results main collected
    summary_file,             \* the blocks of the run summary file
    sleeps,                   \* how often main slept between items
    batch_log,                \* what main itself wrote to the event log
    identifier_doi, identifier_name, identifier_url, is_batch_mode,
    summary_data,             \* the result record of the item being processed
    final_doi, pdf_content, direct_pdf_url_from_oa,
    scihub_pdf_url_retrieved, selenium_cookies,
    pc,                       \* position in doi_to_pdf_downloader
    calls,                    \* the stages invoked for this item, in order
    sel_doi, driver, pdf_src, sel_cookies, sel_exc,  \* locals of the extractor
    sel_last,                 \* the extractor's latest step: its outcome and what it logged last
    session,                  \* the browser session the extractor created
    response,                 \* the HTTP response download_pdf_content validates
    metadata                  \* the answer of the metadata service get_paper_metadata works on

mainVars == <<mode, scihub_retrieval_method, delay, summary_file_path, total_items,
              main_pc, i, processing_summaries, sleeps, batch_log>>

paramVars == <<identifier_doi, identifier_name, identifier_url, is_batch_mode>>

selVars == <<sel_doi, driver, pdf_src, sel_cookies, sel_exc>>

vars == <<mainVars, summary_file, paramVars, summary_data, final_doi, pdf_content,
          direct_pdf_url_from_oa, scihub_pdf_url_retrieved, selenium_cookies, pc, calls,
          selVars, sel_last, session, response, metadata>>

\* the extractor was not entered, or the orchestrator has moved on since
NoSession ==
    [state |-> "none", quit_calls |-> 0, teardowns |-> 0, patched |-> FALSE,
     quit_failed |-> FALSE]

\* the extractor has taken no step, or the orchestrator has moved on since
NoStep == [stage |-> "none", outcome |-> "none", logged |-> "none"]

\* no answer of the metadata service is being worked on
NoMetadata == [kind |-> "none", work |-> NoFields]

\* no download is being validated
NoResponse == [kind |-> "none", content_type |-> "", body |-> <<>>]

Modes == { "batch", "single", "direct" }

Init ==
    /\ mode \in Modes
    /\ scihub_retrieval_method \in { "selenium", "requests" }
    /\ delay \in (IF mode = "batch" THEN { 0, 2 } ELSE { 0 })
    /\ summary_file_path \in BOOLEAN
    /\ total_items \in (IF mode = "batch" THEN 0..MaxItems ELSE { 1 })
    /\ main_pc = (IF mode = "batch" THEN "loop" ELSE "single")
    /\ i = 0
    /\ processing_summaries = <<>>
    /\ summary_file = <<>>
    /\ sleeps = 0
    /\ batch_log = <<>>
    /\ identifier_doi = None /\ identifier_name = None /\ identifier_url = None
    /\ is_batch_mode = FALSE
    /\ summary_data = [status |-> "INITIATED", resolved_doi |-> None,
                       scihub_page_url_tried |-> None, local_filepath |-> None,
                        openalex_api_url_queried |-> None]
    /\ final_doi = None /\ pdf_content = None /\ direct_pdf_url_from_oa = None
    /\ scihub_pdf_url_retrieved = None /\ selenium_cookies = "None"
    /\ pc = "idle"
    /\ calls = <<>>
    /\ sel_doi = None /\ driver = "None" /\ pdf_src = None
    /\ sel_cookies = "None" /\ sel_exc = "none"
    /\ sel_last = NoStep /\ session = NoSession /\ response = NoResponse /\ metadata = NoMetadata

\* lines 459-490: the state doi_to_pdf_downloader starts with
EnterDownloader(doi, name, url, batch) ==
    /\ identifier_doi' = doi /\ identifier_name' = name /\ identifier_url' = url
    /\ is_batch_mode' = batch
    /\ summary_data' = [status |-> "INITIATED", resolved_doi |-> None,
                        scihub_page_url_tried |-> None, local_filepath |-> None,
                        openalex_api_url_queried |-> None]
    /\ final_doi' = None /\ pdf_content' = None /\ direct_pdf_url_from_oa' = None
    /\ scihub_pdf_url_retrieved' = None /\ selenium_cookies' = "None"
    /\ pc' = "stage1"
    /\ calls' = <<>>
    /\ sel_doi' = None /\ driver' = "None" /\ pdf_src' = None
    /\ sel_cookies' = "None" /\ sel_exc' = "none"
    /\ sel_last' = NoStep /\ session' = NoSession /\ response' = NoResponse /\ metadata' = NoMetadata

\* the call is over: its parameters and locals are gone
LeaveDownloader ==
    /\ identifier_doi' = None /\ identifier_name' = None /\ identifier_url' = None
    /\ is_batch_mode' = FALSE
    /\ summary_data' = [status |-> "INITIATED", resolved_doi |-> None,
                        scihub_page_url_tried |-> None, local_filepath |-> None,
                        openalex_api_url_queried |-> None]
    /\ final_doi' = None /\ pdf_content' = None /\ direct_pdf_url_from_oa' = None
    /\ scihub_pdf_url_retrieved' = None /\ selenium_cookies' = "None"
    /\ pc' = "idle"
    /\ calls' = <<>>
    /\ sel_doi' = None /\ driver' = "None" /\ pdf_src' = None
    /\ sel_cookies' = "None" /\ sel_exc' = "none"
    /\ sel_last' = NoStep /\ session' = NoSession /\ response' = NoResponse /\ metadata' = NoMetadata

\* the position after a failure that ends the call early (lines 526-527, 531-532)
EarlyEnd(batch) == IF ExitsOnFailure(batch) THEN "exited" ELSE "returned"

\* lines 609-614: the block appended to the run summary
SummaryAppended(file, enabled, item, status) ==
    IF enabled
    THEN Append(file, [item |-> item,
                       status |-> IF status = "SUCCESS" THEN "SUCCESS" ELSE "FAILURE"])
    ELSE file

\* ------------------------------------------------------------------ doi_to_pdf_downloader

Called(fn, res) == Append(calls, [fn |-> fn, res |-> res])

\* Stage 1, lines 493-500 and 511-532: the metadata lookup and its handlers
Stage1Metadata ==
    /\ pc = "stage1"
    /\ \E resp \in MetadataResponses :
         LET r == get_paper_metadata(identifier_doi, identifier_name, identifier_url, resp)
         IN /\ calls' = Called("get_paper_metadata", r.kind)
            /\ metadata' = resp
            /\ IF r.kind = "ok"
               THEN /\ final_doi' = r.final_doi
                    /\ direct_pdf_url_from_oa' = r.pdf_url
                    /\ summary_data' =
                         [summary_data EXCEPT
                            !.resolved_doi = r.final_doi,
                            !.openalex_api_url_queried = r.api_url,
                            !.status = IF Truthy(r.pdf_url) THEN @ ELSE "INFO_NO_DIRECT_OA_URL"]
                    /\ pc' = IF Truthy(r.pdf_url) THEN "direct" ELSE "stage2"
               ELSE IF r.kind = "NotFoundError"
               THEN /\ direct_pdf_url_from_oa' = direct_pdf_url_from_oa
                    /\ IF Truthy(identifier_doi)
                       THEN /\ final_doi' = MetadataFailureDoi(identifier_doi)
                            /\ summary_data' =
                                 [summary_data EXCEPT
                                    !.resolved_doi = MetadataFailureDoi(identifier_doi),
                                    !.status = "FAILURE_OPENALEX_METADATA"]
                            /\ pc' = "stage2"
                       ELSE /\ final_doi' = final_doi
                            /\ summary_data' =
                                 [summary_data EXCEPT
                                    !.status = Log("FAILURE_OPENALEX_METADATA", "ERROR")]
                            /\ pc' = EarlyEnd(is_batch_mode)
               ELSE IF r.kind = "ValueError"
               THEN /\ UNCHANGED <<final_doi, direct_pdf_url_from_oa>>
                    /\ summary_data' = [summary_data EXCEPT !.status = "FAILURE_INPUT_ERROR"]
                    /\ pc' = EarlyEnd(is_batch_mode)
               ELSE /\ UNCHANGED <<final_doi, direct_pdf_url_from_oa, summary_data>>
                    /\ pc' = "raised"
    /\ UNCHANGED <<mainVars, summary_file, paramVars, pdf_content, scihub_pdf_url_retrieved,
                   selenium_cookies, selVars, sel_last, session, response>>

\* lines 501-510: the direct download of the candidate URL
DirectDownload ==
    /\ pc = "direct"
    /\ \E resp \in DownloadResponses :
         LET r == download_pdf_content(resp)
         IN /\ calls' = Called("download_direct", r.kind)
            /\ response' = resp /\ metadata' = NoMetadata
            /\ IF r.kind = "ok"
               THEN /\ pdf_content' = r.bytes
                    /\ summary_data' = [summary_data EXCEPT !.status = "SUCCESS"]
                    /\ pc' = "stage2"
               ELSE IF r.kind = "NotFoundError"
               THEN /\ pdf_content' = pdf_content
                    /\ summary_data' = [summary_data EXCEPT !.status = "FAILURE_DIRECT_DOWNLOAD"]
                    /\ pc' = "stage2"
               ELSE /\ UNCHANGED <<pdf_content, summary_data>>
                    /\ pc' = "raised"
    /\ UNCHANGED <<mainVars, summary_file, paramVars, final_doi, direct_pdf_url_from_oa,
                   scihub_pdf_url_retrieved, selenium_cookies, selVars, sel_last, session>>

\* a step of the extractor: the stage, how its wait or call ended, and the
\* severity of the last log_func call of the step
Step(stage, outcome, logged) == [stage |-> stage, outcome |-> outcome, logged |-> logged]

\* variant: no browser session is ever seen at the end of the extractor
HasSessionNever(d) == FALSE

\* line 333: "if driver"
HasSession(d) == d # "None"

\* variant: the explicit quit leaves the session as it was
QuitLeavesOpen(s, q) == [s EXCEPT !.quit_calls = @ + 1]

\* how driver.quit() of line 336 can end
QuitOutcomes == { "ok", "OSError", "WebDriverException", "Exception" }

\* lines 336-346: the session after the explicit quit; the instance's quit is
\* replaced by a no-op (line 339) only when quit and the sleep went through
Quit(s, q) ==
    [s EXCEPT !.state = "released",
              !.quit_calls = @ + 1,
              !.teardowns = IF s.patched THEN @ ELSE @ + 1,
              !.patched = @ \/ q = "ok",
              !.quit_failed = @ \/ q # "ok"]

\* Stage 2 with the selenium method, lines 535-541, and the extractor up to
\* the page load, lines 218-236
Stage2Selenium ==
    /\ pc = "stage2"
    /\ NeedsFallback(pdf_content, final_doi)
    /\ scihub_retrieval_method = "selenium"
    /\ sel_doi' = FallbackDoi(final_doi, identifier_doi)
    /\ calls' = Called("retrieve_scihub_pdf_link_selenium", "invoked")
    /\ response' = NoResponse /\ metadata' = NoMetadata
    /\ IF ~Truthy(sel_doi')
       THEN \* lines 218-220 and 562-564: ValueError
            /\ summary_data' =
                 [summary_data EXCEPT
                    !.scihub_page_url_tried = ScihubPage(SCI_HUB_URL, final_doi),
                    !.status = "FAILURE_SCIHUB_INPUT_ERROR"]
            /\ sel_last' = Step("open", "no_doi", "ERROR")
            /\ UNCHANGED <<driver, sel_exc, session>>
            /\ pc' = "stage3"
       ELSE \E chrome \in { "ok", "create_fails", "create_fault", "get_fails", "get_fault" } :
              /\ driver' = IF chrome \in { "create_fails", "create_fault" } THEN "None" ELSE "open"
              /\ session' = IF chrome \in { "create_fails", "create_fault" }
                            THEN NoSession
                            ELSE [NoSession EXCEPT !.state = "open"]
              /\ sel_exc' = IF chrome = "ok" THEN "none"
                            ELSE IF chrome \in { "create_fails", "get_fails" }
                            THEN "[Selenium] WebDriver error"
                            ELSE "[Selenium] Unexpected error"
              /\ sel_last' = Step("open", chrome, IF chrome = "ok" THEN "INFO" ELSE "CRITICAL_ERROR")
              /\ summary_data' =
                   [summary_data EXCEPT
                      !.scihub_page_url_tried = ScihubPage(SCI_HUB_URL, final_doi),
                      !.status = IF chrome = "ok" THEN @ ELSE Log(@, "CRITICAL_ERROR")]
              /\ pc' = IF chrome = "ok" THEN "sel_check" ELSE "sel_finally"
    /\ UNCHANGED <<mainVars, summary_file, paramVars, final_doi, pdf_content,
                   direct_pdf_url_from_oa, scihub_pdf_url_retrieved, selenium_cookies,
                   pdf_src, sel_cookies>>

\* Stage 2 with the requests method, lines 535-544 and 556-561
Stage2Requests ==
    /\ pc = "stage2"
    /\ NeedsFallback(pdf_content, final_doi)
    /\ scihub_retrieval_method # "selenium"
    /\ summary_data' =
         [summary_data EXCEPT
            !.scihub_page_url_tried = ScihubPage(SCI_HUB_URL, final_doi),
            !.status = OnFallbackNotFound(Log(@, "WARNING"),
                                          "Requests-based Sci-Hub method not fully implemented")]
    /\ pc' = "stage3"
    /\ response' = NoResponse /\ metadata' = NoMetadata
    /\ UNCHANGED <<mainVars, summary_file, paramVars, final_doi, pdf_content,
                   direct_pdf_url_from_oa, scihub_pdf_url_retrieved, selenium_cookies, calls,
                   selVars, sel_last, session>>

\* lines 568-571: no document and no DOI
Stage2NoDoi ==
    /\ pc = "stage2"
    /\ ~NeedsFallback(pdf_content, final_doi)
    /\ ~Truthy(pdf_content) /\ ~Truthy(final_doi)
    /\ summary_data' =
         [summary_data EXCEPT
            !.status = IF Log(@, "WARNING") \notin { "FAILURE_OPENALEX_METADATA",
                                                     "FAILURE_INPUT_ERROR" }
                       THEN "FAILURE_NO_DOI_FOR_SCIHUB"
                       ELSE Log(@, "WARNING")]
    /\ pc' = "stage3"
    /\ response' = NoResponse /\ metadata' = NoMetadata
    /\ UNCHANGED <<mainVars, summary_file, paramVars, final_doi, pdf_content,
                   direct_pdf_url_from_oa, scihub_pdf_url_retrieved, selenium_cookies, calls,
                   selVars, sel_last, session>>

\* lines 535 and 568 both false: a document is already there
Stage2Skip ==
    /\ pc = "stage2"
    /\ ~NeedsFallback(pdf_content, final_doi)
    /\ ~(~Truthy(pdf_content) /\ ~Truthy(final_doi))
    /\ pc' = "stage3"
    /\ response' = NoResponse /\ metadata' = NoMetadata
    /\ UNCHANGED <<mainVars, summary_file, paramVars, summary_data, final_doi, pdf_content,
                   direct_pdf_url_from_oa, scihub_pdf_url_retrieved, selenium_cookies, calls,
                   selVars, sel_last, session>>

\* ------------------------------------------------------------------ retrieve_scihub_pdf_link_selenium

\* what the extractor's outer handlers make of an exception (lines 324-331)
SelRaise(stage, kind) ==
    /\ sel_exc' = IF kind = "webdriver_exc" THEN "[Selenium] WebDriver error"
                  ELSE "[Selenium] Unexpected error"
    /\ sel_last' = Step(stage, kind, "CRITICAL_ERROR")
    /\ summary_data' = [summary_data EXCEPT !.status = Log(@, "CRITICAL_ERROR")]
    /\ pc' = "sel_finally"

\* variant: the extractor goes on after it found the unavailability marker
NextAfterCheckProceeding(o) == "sel_locate"

\* lines 253-260 and 327-328: the NotFoundError of the marker leaves through
\* the finally block; a timeout or a WebDriverException of the wait goes on
NextAfterCheck(o) == IF o = "marker" THEN "sel_finally" ELSE "sel_locate"

\* lines 240-260: the wait for one of the two unavailability markers
SelCheckUnavailable ==
    /\ pc = "sel_check"
    /\ \E o \in { "marker", "timeout", "webdriver_exc", "fault" } :
         IF o = "marker"
         THEN /\ sel_exc' = Marker
              /\ sel_last' = Step("check", o, "WARNING")
              /\ summary_data' = [summary_data EXCEPT !.status = Log(@, "WARNING")]
              /\ pc' = NextAfterCheck(o)
         ELSE IF o = "fault"
         THEN SelRaise("check", o)
         ELSE /\ UNCHANGED <<sel_exc, summary_data>>
              /\ sel_last' = Step("check", o, "DEBUG")
              /\ pc' = NextAfterCheck(o)
    /\ UNCHANGED <<mainVars, summary_file, paramVars, final_doi, pdf_content,
                   direct_pdf_url_from_oa, scihub_pdf_url_retrieved, selenium_cookies, calls,
                   sel_doi, driver, pdf_src, sel_cookies, session, response, metadata>>

\* lines 265-281: the wait for iframe#pdf or embed#pdf
SelLocatePdfContainer ==
    /\ pc = "sel_locate"
    /\ \E o \in { "found", "timeout", "webdriver_exc", "fault" } :
            IF o = "found"
            THEN \E src \in IframeSrcs :
                   /\ pdf_src' = src
                   /\ sel_last' = Step("locate", o, IF Truthy(src) THEN "INFO" ELSE "WARNING")
                   /\ summary_data' =
                        [summary_data EXCEPT
                           !.status = IF Truthy(src) THEN @ ELSE Log(@, "WARNING")]
                   /\ sel_exc' = sel_exc
                   /\ pc' = "sel_resolve"
            ELSE IF o = "timeout"
            THEN /\ summary_data' = [summary_data EXCEPT !.status = Log(@, "WARNING")]
                 /\ sel_last' = Step("locate", o, "WARNING")
                 /\ UNCHANGED <<pdf_src, sel_exc>>
                 /\ pc' = "sel_scan"
            ELSE /\ SelRaise("locate", o)
                 /\ pdf_src' = pdf_src
    /\ UNCHANGED <<mainVars, summary_file, paramVars, final_doi, pdf_content,
                   direct_pdf_url_from_oa, scihub_pdf_url_retrieved, selenium_cookies, calls,
                   sel_doi, driver, sel_cookies, session, response, metadata>>

IframeLists == UNION { [1..n -> IframeSrcs] : n \in 0..MaxIframes }

\* lines 282-293: the scan of all iframes after the timeout
SelFallbackScan ==
    /\ pc = "sel_scan"
    /\ \E o \in { "listed", "webdriver_exc" } :
         IF o = "listed"
         THEN \E iframes \in IframeLists :
                /\ pdf_src' = FirstPdfIframe(iframes)
                /\ sel_last' = Step("scan", o,
                                     IF Truthy(FirstPdfIframe(iframes)) \/ Len(iframes) = 0
                                     THEN "INFO"
                                     ELSE IF \E k \in 1..Len(iframes) : Truthy(iframes[k])
                                     THEN "DEBUG" ELSE "none")
                /\ UNCHANGED <<sel_exc, summary_data>>
                /\ pc' = "sel_resolve"
         ELSE /\ SelRaise("scan", o)
              /\ pdf_src' = pdf_src
    /\ UNCHANGED <<mainVars, summary_file, paramVars, final_doi, pdf_content,
                   direct_pdf_url_from_oa, scihub_pdf_url_retrieved, selenium_cookies, calls,
                   sel_doi, driver, sel_cookies, session, response, metadata>>

\* variant: a WebDriver fault of the cookie read is not caught
CookieReadRaisesOnWebDriverFault(c) == c \in { "fault", "webdriver_exc" }

\* lines 310-320 and 329-331: of the faults of driver.get_cookies() only a
\* WebDriverException is caught on the spot
CookieReadRaises(c) == c = "fault"

\* variant: a missing link is not noticed
NoLinkNever(src) == FALSE

\* line 295: "if not pdf_src"
NoLink(src) == ~Truthy(src)

\* lines 295-322: no link, or the link resolved and the cookies captured
SelResolve ==
    /\ pc = "sel_resolve"
    /\ IF NoLink(pdf_src)
       THEN /\ sel_exc' = "[Selenium] PDF iframe/embed not found"
            /\ sel_last' = Step("resolve", "no_link", "ERROR")
            /\ summary_data' = [summary_data EXCEPT !.status = Log(@, "ERROR")]
            /\ UNCHANGED <<pdf_src, sel_cookies>>
       ELSE \E c \in { "cookies", "no_cookies", "webdriver_exc", "fault" } :
              /\ pdf_src' = ResolveLink(SCI_HUB_URL, pdf_src)
              /\ sel_cookies' = IF c = "cookies" THEN "cookies"
                                ELSE IF c = "no_cookies" THEN "empty" ELSE "None"
              /\ sel_exc' = IF CookieReadRaises(c) THEN "[Selenium] Unexpected error" ELSE "none"
              /\ sel_last' = Step("resolve", c,
                                   IF c \in { "cookies", "no_cookies" } THEN "INFO"
                                   ELSE IF c = "webdriver_exc" THEN "WARNING"
                                   ELSE "CRITICAL_ERROR")
              /\ summary_data' =
                   [summary_data EXCEPT
                      !.status = IF c = "webdriver_exc" THEN Log(Log(@, "SUCCESS"), "WARNING")
                                 ELSE IF c = "fault"
                                 THEN Log(Log(@, "SUCCESS"), "CRITICAL_ERROR")
                                 ELSE Log(@, "SUCCESS")]
    /\ pc' = "sel_finally"
    /\ UNCHANGED <<mainVars, summary_file, paramVars, final_doi, pdf_content,
                   direct_pdf_url_from_oa, scihub_pdf_url_retrieved, selenium_cookies, calls,
                   sel_doi, driver, session, response, metadata>>

\* lines 332-347, then the return to line 541 or the handler of lines 556-561
SelFinally ==
    /\ pc = "sel_finally"
    /\ \E q \in (IF HasSession(driver) THEN QuitOutcomes ELSE { "no driver" }) :
         LET st == IF q \in { "ok", "no driver" } THEN summary_data.status
                   ELSE Log(summary_data.status, "WARNING")
         IN /\ driver' = "None"
            /\ session' = IF HasSession(driver) THEN Quit(session, q) ELSE session
            /\ sel_last' = Step("finally",
                                 IF q \in { "ok", "no driver" } THEN q ELSE "quit_failed",
                                 IF q = "no driver" THEN sel_last.logged
                                 ELSE IF q = "ok" THEN "INFO" ELSE "WARNING")
            /\ IF sel_exc = "none"
               THEN /\ scihub_pdf_url_retrieved' = pdf_src
                    /\ selenium_cookies' = sel_cookies
                    /\ summary_data' = [summary_data EXCEPT !.status = st]
                    /\ pc' = "fb_download"
               ELSE /\ UNCHANGED <<scihub_pdf_url_retrieved, selenium_cookies>>
                    /\ summary_data' =
                         [summary_data EXCEPT !.status = OnFallbackNotFound(st, sel_exc)]
                    /\ pc' = "stage3"
    /\ UNCHANGED <<mainVars, summary_file, paramVars, final_doi, pdf_content,
                   direct_pdf_url_from_oa, calls, sel_doi, pdf_src, sel_cookies, sel_exc,
                   response, metadata>>

\* lines 338-347: line 347 drops the only reference to the session object;
\* when the object is finalised its __del__ calls quit once more (the reason
\* line 339 gives for replacing quit), which tears the session down again
\* unless quit was replaced
DriverFinalised ==
    /\ session.state = "released"
    /\ session' = [session EXCEPT !.state = "finalised",
                                  !.teardowns = IF session.patched THEN @ ELSE @ + 1]
    /\ UNCHANGED <<mainVars, summary_file, paramVars, summary_data, final_doi, pdf_content,
                   direct_pdf_url_from_oa, scihub_pdf_url_retrieved, selenium_cookies, pc,
                   calls, selVars, sel_last, response, metadata>>

\* lines 546-567: the download of the extracted link
FallbackDownload ==
    /\ pc = "fb_download"
    /\ IF Truthy(scihub_pdf_url_retrieved)
       THEN \E resp \in DownloadResponses :
              LET r == download_pdf_content(resp)
              IN /\ calls' = Called("download_scihub", r.kind)
                 /\ response' = resp /\ metadata' = NoMetadata
                 /\ pdf_content' = IF r.kind = "ok" THEN r.bytes ELSE pdf_content
                 /\ summary_data' =
                      [summary_data EXCEPT
                         !.status = IF r.kind = "ok" THEN "SUCCESS"
                                    ELSE IF r.kind = "NotFoundError"
                                    THEN OnFallbackNotFound(@, "Failed to download PDF")
                                    ELSE OnFallbackFault(Log(@, "CRITICAL_ERROR"))]
       ELSE /\ UNCHANGED <<calls, pdf_content>>
            /\ response' = NoResponse /\ metadata' = NoMetadata
            /\ summary_data' =
                 [summary_data EXCEPT
                    !.status = IF Log(@, "ERROR") # "FAILURE_SCIHUB_NOT_FOUND"
                               THEN "FAILURE_SCIHUB_NO_URL" ELSE Log(@, "ERROR")]
    /\ pc' = "stage3"
    /\ sel_last' = NoStep /\ session' = NoSession
    /\ UNCHANGED <<mainVars, summary_file, paramVars, final_doi, direct_pdf_url_from_oa,
                   scihub_pdf_url_retrieved, selenium_cookies, selVars>>

\* ------------------------------------------------------------------ stage 3

KeptStatuses ==
    { "SUCCESS", "FAILURE_OPENALEX_METADATA", "FAILURE_INPUT_ERROR",
      "FAILURE_SCIHUB_NOT_FOUND", "FAILURE_NO_DOI_FOR_SCIHUB" }

\* lines 604-606: the status when no document was obtained
NoPdfStatus(cur) ==
    Log(IF cur \notin KeptStatuses THEN "FAILURE_NO_PDF_CONTENT" ELSE cur, "FAILURE")

\* variant: the write of the file does not touch the status
SavedStatusKept(cur, written) == cur

\* lines 589-602: the status after the write of the file
SavedStatus(cur, written) == IF written THEN "SUCCESS" ELSE "FAILURE_SAVE_PDF"

\* lines 576-602 and 609-616: the document is written, the summary updated
Stage3Save ==
    /\ pc = "stage3"
    /\ Truthy(pdf_content)
    /\ \E dir \in { "exists", "created", "OSError" }, written \in BOOLEAN :
         LET s1 == IF dir = "OSError" THEN Log(summary_data.status, "ERROR")
                   ELSE summary_data.status
             path == IF dir = "OSError" THEN <<".", "/", "paper.pdf">>
                     ELSE <<"output_dir", "/", "paper.pdf">>
             st == SavedStatus(Log(s1, IF written THEN "SUCCESS" ELSE "ERROR"), written)
         IN /\ summary_data' =
                 [summary_data EXCEPT
                    !.status = st,
                    !.local_filepath = IF written THEN path ELSE None]
            /\ IF ~written /\ ExitsOnFailure(is_batch_mode)
               THEN /\ pc' = "exited"
                    /\ summary_file' = summary_file
               ELSE /\ pc' = "returned"
                    /\ summary_file' = SummaryAppended(summary_file, summary_file_path, i, st)
    /\ sel_last' = NoStep /\ session' = NoSession /\ response' = NoResponse /\ metadata' = NoMetadata
    /\ UNCHANGED <<mainVars, paramVars, final_doi, pdf_content, direct_pdf_url_from_oa,
                   scihub_pdf_url_retrieved, selenium_cookies, calls, selVars>>

\* lines 603-616: no document
Stage3NoPdf ==
    /\ pc = "stage3"
    /\ ~Truthy(pdf_content)
    /\ summary_data' = [summary_data EXCEPT !.status = NoPdfStatus(@)]
    /\ IF ExitsOnFailure(is_batch_mode)
       THEN /\ pc' = "exited"
            /\ summary_file' = summary_file
       ELSE /\ pc' = "returned"
            /\ summary_file' = SummaryAppended(summary_file, summary_file_path, i,
                                               NoPdfStatus(summary_data.status))
    /\ sel_last' = NoStep /\ session' = NoSession /\ response' = NoResponse /\ metadata' = NoMetadata
    /\ UNCHANGED <<mainVars, paramVars, final_doi, pdf_content, direct_pdf_url_from_oa,
                   scihub_pdf_url_retrieved, selenium_cookies, calls, selVars>>

\* ------------------------------------------------------------------ main

Ended == pc \in { "returned", "raised", "exited" }

\* variant: an exception of the call is not caught
AfterItemUncaught(outcome) == IF outcome = "returned" THEN "loop" ELSE "crashed"

\* lines 721-737: "except Exception" catches what the call raises, SystemExit
\* ends the process
AfterItem(outcome) == IF outcome = "exited" THEN "exited" ELSE "loop"

\* variant: a delay after every item
SleepsAfterEveryItem(item, total, d) == d > 0

\* line 739: a delay after every item but the last
Sleeps(item, total, d) == item < total /\ d > 0

\* lines 718-733: the next identifier of the input file is processed
BatchItem ==
    /\ mode = "batch"
    /\ main_pc = "loop"
    /\ i < total_items
    /\ i' = i + 1
    /\ main_pc' = "in_call"
    /\ batch_log' = Append(batch_log, [item |-> i + 1, event |-> "INFO start"])
    /\ \E id \in BatchIdentifiers : EnterDownloader(id, None, None, TRUE)
    /\ UNCHANGED <<mode, scihub_retrieval_method, delay, summary_file_path, total_items,
                   processing_summaries, sleeps, summary_file>>

\* lines 733-742: the result is collected or the exception logged, then the delay
BatchAfterItem ==
    /\ mode = "batch"
    /\ main_pc = "in_call"
    /\ Ended
    /\ processing_summaries' =
         IF pc = "returned"
         THEN Append(processing_summaries, [item |-> i])
         ELSE processing_summaries
    /\ batch_log' = IF pc = "raised"
                    THEN Append(batch_log, [item |-> i, event |-> "CRITICAL_ERROR"])
                    ELSE batch_log
    /\ main_pc' = AfterItem(pc)
    /\ sleeps' = IF AfterItem(pc) = "loop" /\ Sleeps(i, total_items, delay)
                 THEN sleeps + 1 ELSE sleeps
    /\ LeaveDownloader
    /\ UNCHANGED <<mode, scihub_retrieval_method, delay, summary_file_path, total_items, i,
                   summary_file>>

\* lines 744-746
BatchComplete ==
    /\ mode = "batch"
    /\ main_pc = "loop"
    /\ i = total_items
    /\ main_pc' = "done"
    /\ batch_log' = Append(batch_log, [item |-> i, event |-> "INFO complete"])
    /\ UNCHANGED <<mode, scihub_retrieval_method, delay, summary_file_path, total_items, i,
                   processing_summaries, sleeps, summary_file, paramVars, summary_data,
                   final_doi, pdf_content, direct_pdf_url_from_oa, scihub_pdf_url_retrieved,
                   selenium_cookies, pc, calls, selVars, sel_last, session, response, metadata>>

\* lines 748-760: exactly one of --doi, --name, --url is given
SingleItem ==
    /\ mode = "single"
    /\ main_pc = "single"
    /\ i' = 1
    /\ main_pc' = "in_call"
    /\ \E d \in DoiInputs, n \in NameInputs, u \in UrlInputs :
         /\ Cardinality({ x \in { <<"doi", d>>, <<"name", n>>, <<"url", u>> } :
                              Truthy(x[2]) }) = 1
         /\ EnterDownloader(d, n, u, FALSE)
    /\ UNCHANGED <<mode, scihub_retrieval_method, delay, summary_file_path, total_items,
                   processing_summaries, sleeps, batch_log, summary_file>>

\* doi_to_pdf_downloader called as a function, with any arguments
DirectCall ==
    /\ mode = "direct"
    /\ main_pc = "single"
    /\ i' = 1
    /\ main_pc' = "in_call"
    /\ \E in \in DirectInputs, b \in BOOLEAN : EnterDownloader(in[1], in[2], in[3], b)
    /\ UNCHANGED <<mode, scihub_retrieval_method, delay, summary_file_path, total_items,
                   processing_summaries, sleeps, batch_log, summary_file>>

\* the exit code of the process: 0 when main runs to its end, 1 after
\* sys.exit(1) and after an exception nobody caught
ExitCode(m) == IF m = "done" THEN 0 ELSE 1

\* lines 761-764: the single call returned; an exit or an exception ends the process
SingleAfterItem ==
    /\ mode # "batch"
    /\ main_pc = "in_call"
    /\ Ended
    /\ processing_summaries' =
         IF pc = "returned"
         THEN Append(processing_summaries, [item |-> i])
         ELSE processing_summaries
    /\ main_pc' = IF pc = "returned" THEN "done"
                  ELSE IF pc = "exited" THEN "exited" ELSE "crashed"
    /\ LeaveDownloader
    /\ UNCHANGED <<mode, scihub_retrieval_method, delay, summary_file_path, total_items, i,
                   sleeps, batch_log, summary_file>>

Next ==
    \/ BatchItem
    \/ BatchAfterItem
    \/ BatchComplete
    \/ SingleItem
    \/ DirectCall
    \/ SingleAfterItem
    \/ Stage1Metadata
    \/ DirectDownload
    \/ Stage2Selenium
    \/ Stage2Requests
    \/ Stage2NoDoi
    \/ Stage2Skip
    \/ SelCheckUnavailable
    \/ SelLocatePdfContainer
    \/ SelFallbackScan
    \/ SelResolve
    \/ SelFinally
    \/ DriverFinalised
    \/ FallbackDownload
    \/ Stage3Save
    \/ Stage3NoPdf

Spec == Init /\ [][Next]_vars

\* ------------------------------------------------------------------ properties

Active == pc \notin { "idle", "returned", "raised", "exited" }

HasCall(fn) == \E k \in 1..Len(calls) : calls[k].fn = fn

CallRes(fn, res) == \E k \in 1..Len(calls) : calls[k].fn = fn /\ calls[k].res = res

Extractor == "retrieve_scihub_pdf_link_selenium"

Status == summary_data.status

InExtractor == pc \in { "sel_check", "sel_locate", "sel_scan", "sel_resolve", "sel_finally" }

\* C1: within the processing of one identifier, a step taken while the status
\* is SUCCESS leaves the status SUCCESS.
C1_SuccessNeverOverwritten ==
    [][(Active /\ Status = "SUCCESS") => summary_data'.status = "SUCCESS"]_vars

EnumeratedStatuses ==
    { "SUCCESS", "FAILURE_INPUT_ERROR", "FAILURE_OPENALEX_METADATA",
      "FAILURE_SCIHUB_NOT_FOUND", "FAILURE_SCIHUB_DOWNLOAD_ERROR",
      "FAILURE_SCIHUB_UNEXPECTED_ERROR", "FAILURE_SCIHUB_INPUT_ERROR",
      "FAILURE_SCIHUB_NO_URL", "FAILURE_NO_DOI_FOR_SCIHUB" }

\* C2: the status of a returned result is SUCCESS or one of the enumerated
\* failure kinds, never an intermediate value or a log severity label.
C2_FinalStatusEnumerated == pc = "returned" => Status \in EnumeratedStatuses

LoggedItems(event) ==
    SelectSeq(batch_log, LAMBDA e : e.event = event)

\* C4: in batch mode the run never ends on an item's exception; when the batch
\* is complete every identifier was started exactly once, in input order, and
\* each item has either its own result collected or its exception logged.
C4_BatchIsolation ==
    mode = "batch" =>
      /\ main_pc \notin { "crashed", "exited" }
      /\ \A k \in 1..Len(LoggedItems("INFO start")) : LoggedItems("INFO start")[k].item = k
      /\ Len(LoggedItems("INFO start")) = i
      /\ main_pc = "done" =>
           /\ i = total_items
           /\ \A k \in 1..total_items :
                Cardinality({ j \in 1..Len(processing_summaries) :
                                  processing_summaries[j].item = k })
                + Cardinality({ j \in 1..Len(batch_log) :
                                    batch_log[j] = [item |-> k, event |-> "CRITICAL_ERROR"] })
                = 1
      /\ \A j, k \in 1..Len(processing_summaries) :
           j < k => processing_summaries[j].item < processing_summaries[k].item

\* C4 witness: the first identifier raised, the second one still produced its
\* result, and the batch is complete.
C4_Witness ==
    /\ mode = "batch"
    /\ main_pc = "done"
    /\ total_items = 2
    /\ batch_log[2] = [item |-> 1, event |-> "CRITICAL_ERROR"]
    /\ Len(processing_summaries) = 1
    /\ processing_summaries[1].item = 2

\* C5: the direct download comes before every fallback step, and the
\* extractor is invoked only without a document from the direct source and
\* with a canonical DOI.
C5_DirectBeforeFallback ==
    /\ \A j, k \in 1..Len(calls) :
         (calls[j].fn = "download_direct" /\ calls[k].fn \in { Extractor, "download_scihub" })
           => j < k
    /\ HasCall(Extractor) => (~CallRes("download_direct", "ok") /\ Truthy(final_doi))
    /\ InExtractor => (~Truthy(pdf_content) /\ Truthy(sel_doi))

\* C5 witness: the direct download failed and the extractor was invoked.
C5_Witness ==
    /\ CallRes("download_direct", "NotFoundError")
    /\ HasCall(Extractor)
    /\ pc = "sel_check"

\* C6: after a successful direct download neither the extractor nor a second
\* download is invoked, and at most one download per identifier succeeds.
C6_AtMostOneDocument ==
    /\ CallRes("download_direct", "ok") => (~HasCall(Extractor) /\ ~HasCall("download_scihub"))
    /\ Cardinality({ k \in 1..Len(calls) :
                       calls[k].fn \in { "download_direct", "download_scihub" }
                       /\ calls[k].res = "ok" }) <= 1

\* C6 witness: the direct download succeeded and the call returned.
C6_Witness ==
    /\ pc = "returned"
    /\ CallRes("download_direct", "ok")
    /\ Truthy(final_doi)
    /\ Status = "SUCCESS"

\* C7: a result returned after the extractor found the explicit-unavailability
\* marker carries no document, and among the results returned without a
\* document after the extractor was invoked, the status is
\* FAILURE_SCIHUB_NOT_FOUND exactly for those where the marker was found.
C7_NotFoundDistinguished ==
    /\ (pc = "returned" /\ sel_exc = Marker) => ~Truthy(pdf_content)
    /\ (pc = "returned" /\ HasCall(Extractor) /\ ~Truthy(pdf_content)) =>
         (Status = "FAILURE_SCIHUB_NOT_FOUND" <=> sel_exc = Marker)

\* C8: when the metadata lookup of an input without a DOI fails with
\* NotFoundError, the processing ends with status FAILURE_OPENALEX_METADATA
\* and without a call of the extractor or of the content fetcher.
C8_TitleNotFound ==
    (pc \in { "returned", "exited" } /\ ~Truthy(identifier_doi)
       /\ CallRes("get_paper_metadata", "NotFoundError")) =>
      /\ Status = "FAILURE_OPENALEX_METADATA"
      /\ Len(calls) = 1

PastStage2 == pc \notin { "idle", "stage1", "direct", "stage2", "raised" }

NoIdentifier == ~Truthy(identifier_doi) /\ ~Truthy(identifier_name) /\ ~Truthy(identifier_url)

\* C11: a result returned after the metadata resolved without a canonical DOI
\* and without a document from the direct source has the status
\* FAILURE_NO_DOI_FOR_SCIHUB.
C11_NoDoiStatus ==
    (pc = "returned" /\ CallRes("get_paper_metadata", "ok")
       /\ ~Truthy(final_doi) /\ ~Truthy(pdf_content)) =>
      Status = "FAILURE_NO_DOI_FOR_SCIHUB"

HasDoiPrefix(s) == startswith(s, HttpsDoiPrefix) \/ startswith(s, HttpDoiPrefix)

\* C13: for a DOI input with a doi.org prefix, once the fallback is reached the
\* DOI used for the fallback page is prefix-free, on the path where the
\* metadata lookup failed it is the same DOI the metadata query used, and the
\* fallback page is built from it.
C13_PrefixFreeOnEveryPath ==
    (HasDoiPrefix(identifier_doi) /\ Truthy(summary_data.scihub_page_url_tried)) =>
      /\ ~HasDoiPrefix(final_doi)
      /\ CallRes("get_paper_metadata", "NotFoundError") =>
           final_doi = NormalizeDoi(identifier_doi)
      /\ summary_data.scihub_page_url_tried = ScihubPage(SCI_HUB_URL, final_doi)

ExtractorExited == pc \in { "fb_download", "stage3" } /\ sel_last.stage = "finally"

\* C14: while the extractor works on the page its session is open and quit
\* was not called; when the extractor has returned or raised, on whatever
\* path, no session is open, quit was called exactly once on a session that
\* was created, and a failed quit was logged as a warning and left the way the
\* extractor ends (a link returned, or the exception of its body) unchanged.
C14_SessionQuitOnce ==
    /\ pc \in { "sel_check", "sel_locate", "sel_scan", "sel_resolve" } =>
         (session.state = "open" /\ session.quit_calls = 0)
    /\ pc = "sel_finally" =>
         (session.quit_calls = 0 /\ session.state \in { "open", "none" }
            /\ (session.state = "none" => sel_last.outcome \in { "create_fails", "create_fault" }))
    /\ ExtractorExited =>
         /\ session.state \in { "none", "released", "finalised" }
         /\ session.quit_calls = (IF session.state = "none" THEN 0 ELSE 1)
         /\ session.state = "none" => sel_exc # "none"
         /\ session.quit_failed =>
              (sel_last.outcome = "quit_failed" /\ sel_last.logged = "WARNING")
         /\ pc = "fb_download" <=> sel_exc = "none"

\* C14 witness: the extractor found the unavailability marker, its quit
\* failed, and the NotFoundError of the marker reached the orchestrator.
C14_Witness ==
    /\ ExtractorExited
    /\ sel_exc = Marker
    /\ session.quit_calls = 1
    /\ session.quit_failed
    /\ pc = "stage3"

\* C15: a session the extractor released has its quit replaced by a no-op, so
\* that it is torn down once, whatever calls quit on it later.
C15_ReleaseIdempotent ==
    session.state \in { "released", "finalised" } =>
      (session.patched /\ session.teardowns = 1)

LastCall == calls[Len(calls)]

\* C16: an HTTP response is accepted exactly when its body is not empty and
\* its declared type is application/pdf or octet-stream or its first chunk
\* starts with the PDF signature; the bytes accepted are the whole body, and a
\* response that is not accepted raises NotFoundError.
C16_ContentValidation ==
    response.kind = "http" =>
      /\ LastCall.fn \in { "download_direct", "download_scihub" }
      /\ LastCall.res = "ok" <=>
           /\ Len(response.body) > 0
           /\ \/ response.content_type \in { "application/pdf", "application/octet-stream" }
              \/ response.body[1] = "%PDF-1.4"
      /\ LastCall.res = "ok" => pdf_content = response.body
      /\ LastCall.res # "ok" => LastCall.res = "NotFoundError"

\* C16 witness: a text/html response whose body starts with the signature
\* was accepted, with its whole body.
C16_Witness ==
    /\ response = [kind |-> "http", content_type |-> "text/html",
                   body |-> <<"%PDF-1.4", "more">>]
    /\ LastCall = [fn |-> "download_direct", res |-> "ok"]
    /\ pdf_content = <<"%PDF-1.4", "more">>

\* C17: in single-item mode the process ends with exit code 0 exactly when
\* the final status of the identifier is SUCCESS.
C17_SingleModeExitCode ==
    [][(mode = "single" /\ main_pc = "in_call" /\ main_pc' # "in_call") =>
         /\ main_pc' \in { "done", "exited", "crashed" }
         /\ ExitCode(main_pc') = 0 <=> Status = "SUCCESS"]_vars

\* C17 witness: in single-item mode the write of the file failed and the
\* process exited.
C17_Witness ==
    /\ mode = "single"
    /\ pc = "exited"
    /\ Status = "FAILURE_SAVE_PDF"
    /\ Truthy(pdf_content)

\* C18: with the summary file initialised, whenever the batch runner is
\* between items or done, the summary holds one block for each identifier
\* processed so far, in processing order.
C18_OneBlockPerItem ==
    (mode = "batch" /\ summary_file_path /\ main_pc \in { "loop", "done" }) =>
      /\ Len(summary_file) = i
      /\ \A k \in 1..Len(summary_file) : summary_file[k].item = k

\* C19: when the wait of the unavailability check found a marker the
\* extractor is on its way out with the NotFoundError of the marker and never
\* looks for the PDF container; when the wait timed out the extractor is at
\* the search for the container, no exception is pending and the timeout was
\* logged as DEBUG only.
C19_CheckUnavailable ==
    /\ (sel_last.stage = "check" /\ sel_last.outcome = "marker") =>
         (pc = "sel_finally" /\ sel_exc = Marker)
    /\ sel_exc = Marker =>
         /\ pc \notin { "sel_locate", "sel_scan", "sel_resolve", "fb_download" }
         /\ ~Truthy(pdf_src)
         /\ ~Truthy(scihub_pdf_url_retrieved)
         /\ ~HasCall("download_scihub")
    /\ (sel_last.stage = "check" /\ sel_last.outcome = "timeout") =>
         (pc = "sel_locate" /\ sel_exc = "none" /\ sel_last.logged = "DEBUG")
    /\ pc = "sel_locate" =>
         (sel_last.stage = "check" /\ sel_last.outcome \in { "timeout", "webdriver_exc" })

\* C19 witness: the wait timed out and the extractor is looking for the
\* container.
C19_Witness ==
    /\ pc = "sel_locate"
    /\ sel_last = Step("check", "timeout", "DEBUG")
    /\ session.state = "open"

NotFoundOnPage == "[Selenium] PDF iframe/embed not found"

\* C20: the scan of all iframes is entered only from a timed-out wait for the
\* container, and a container found without src goes to the link test without
\* a scan; the link test without a link ends in the NotFoundError of the
\* missing link, with which the extractor leaves without a link and the
\* orchestrator downloads nothing.
C20_ScanOnlyAfterTimeout ==
    /\ [](pc = "sel_scan" => sel_last = Step("locate", "timeout", "WARNING"))
    /\ []((sel_last.stage = "locate" /\ sel_last.outcome = "found") => pc = "sel_resolve")
    /\ []((pc = "sel_resolve") => sel_last.stage \in { "locate", "scan" })
    /\ []((sel_exc = NotFoundOnPage /\ pc # "sel_finally") =>
            (pc \in { "stage3", "returned", "exited" }
               /\ ~Truthy(scihub_pdf_url_retrieved) /\ ~HasCall("download_scihub")))
    /\ [][(pc = "sel_resolve" /\ ~Truthy(pdf_src)) =>
            (pc' = "sel_finally" /\ sel_exc' = NotFoundOnPage /\ ~Truthy(pdf_src'))]_vars

\* C20 witness: the scan found no iframe with a PDF link and the extractor
\* left with the NotFoundError of the missing link.
C20_Witness ==
    /\ ExtractorExited
    /\ pc = "stage3"
    /\ sel_exc = NotFoundOnPage
    /\ ~Truthy(scihub_pdf_url_retrieved)

\* C21: the link test with a link leaves the link prefixed with "https:" when
\* it is protocol-relative, joined to the configured fallback base URL when it
\* does not start with http, and as it is otherwise.
C21_ResolveLink ==
    [][(pc = "sel_resolve" /\ Truthy(pdf_src)) =>
         pdf_src' =
           (IF pdf_src[1] = "//" THEN <<"https:">> \o pdf_src
            ELSE IF pdf_src[1] \notin { "https:", "http:" }
            THEN <<"https:", "//", "sci-hub.mksa.top", "/">>
                   \o (IF pdf_src[1] = "/" THEN Tail(pdf_src) ELSE pdf_src)
            ELSE pdf_src)]_vars

\* C21 witness: a relative link was joined to the fallback base URL.
C21_Witness ==
    /\ pc = "sel_finally"
    /\ sel_last.stage = "resolve"
    /\ pdf_src = <<"https:", "//", "sci-hub.mksa.top", "/", "downloads/p", ".pdf">>

\* C22: after the link was resolved and the cookie read ended with cookies,
\* without cookies or with a WebDriver fault, the extractor returns that link
\* with the cookies read (none after the fault), and the status stays SUCCESS.
C22_CookiesBestEffort ==
    [][(pc = "sel_finally" /\ sel_last.stage = "resolve"
          /\ sel_last.outcome \in { "cookies", "no_cookies", "webdriver_exc" }) =>
         /\ Truthy(pdf_src)
         /\ pc' = "fb_download"
         /\ scihub_pdf_url_retrieved' = pdf_src
         /\ selenium_cookies' = (IF sel_last.outcome = "cookies" THEN "cookies"
                                 ELSE IF sel_last.outcome = "no_cookies" THEN "empty"
                                 ELSE "None")
         /\ summary_data'.status = "SUCCESS"]_vars

\* C22 witness: the cookie read failed with a WebDriver fault and the link was
\* returned.
C22_Witness ==
    /\ ExtractorExited
    /\ pc = "fb_download"
    /\ selenium_cookies = "None"
    /\ Truthy(scihub_pdf_url_retrieved)

\* the record the metadata lookup returned its result from
RecordInUse ==
    /\ Len(calls) > 0
    /\ LastCall = [fn |-> "get_paper_metadata", res |-> "ok"]
    /\ \/ metadata.kind = "work" /\ ~Truthy(identifier_name)
       \/ metadata.kind = "search_hit" /\ Truthy(identifier_name)

IsAbstractUrl(u) ==
    \E k \in 1..(Len(u) - 1) : u[k] = "https://arxiv.org/" /\ u[k + 1] = "abs/"

\* C23: the candidate URL is the record's open_access.oa_url when present,
\* otherwise best_oa_location.pdf_url when present, otherwise none.
C23_CandidatePriority ==
    RecordInUse =>
      LET w == metadata.work
      IN /\ (Truthy(w.oa_url) /\ ~IsAbstractUrl(w.oa_url)) => direct_pdf_url_from_oa = w.oa_url
         /\ (~Truthy(w.oa_url) /\ Truthy(w.best_pdf_url)) =>
              direct_pdf_url_from_oa = w.best_pdf_url
         /\ (~Truthy(w.oa_url) /\ ~Truthy(w.best_pdf_url)) => ~Truthy(direct_pdf_url_from_oa)

\* C24: a candidate URL with arxiv.org/abs/<id> becomes
\* https://arxiv.org/pdf/<id>.pdf; an abstract URL without an identifier is
\* kept and the lookup still returns; any other candidate is one of the
\* record's URLs, unmodified.
C24_ArxivCorrection ==
    RecordInUse =>
      LET u == metadata.work.oa_url
      IN /\ (IsAbstractUrl(u) /\ Len(u) = 3) =>
              direct_pdf_url_from_oa = <<"https://arxiv.org/", "pdf/", u[3], ".pdf">>
         /\ (IsAbstractUrl(u) /\ Len(u) = 2) => direct_pdf_url_from_oa = u
         /\ ~IsAbstractUrl(u) =>
              direct_pdf_url_from_oa \in { None, u, metadata.work.best_pdf_url }

\* C24 witness: the abstract URL of 1234.5678 became its PDF URL and the
\* direct download is next.
C24_Witness ==
    /\ RecordInUse
    /\ metadata.work.oa_url = <<"https://arxiv.org/", "abs/", "1234.5678">>
    /\ direct_pdf_url_from_oa = <<"https://arxiv.org/", "pdf/", "1234.5678", ".pdf">>
    /\ pc = "direct"

\* C25: for an arXiv abstract URL and for an arXiv PDF URL of the paper
\* 1234.5678 the metadata query is the arXiv lookup of 1234.5678.
C25_ArxivQuery ==
    (CallRes("get_paper_metadata", "ok") /\ ~Truthy(identifier_doi)
       /\ ~Truthy(identifier_name) /\ IsArxivUrl(identifier_url)) =>
      summary_data.openalex_api_url_queried = base_api_url \o <<"/", "arxiv:", "1234.5678">>

\* C26: in batch mode with a positive delay the runner has slept once after
\* each item processed so far except the last of the file, whatever the
\* outcome of the item; with delay zero it never sleeps.
C26_DelayBetweenItems ==
    mode = "batch" =>
      sleeps = (IF delay > 0
                THEN IF main_pc = "in_call" THEN i - 1
                     ELSE IF i < total_items THEN i
                     ELSE IF total_items = 0 THEN 0 ELSE total_items - 1
                ELSE 0)

\* C26 witness: with a positive delay the first of two items raised, the
\* batch is complete and the runner slept once.
C26_Witness ==
    /\ mode = "batch"
    /\ delay > 0
    /\ main_pc = "done"
    /\ total_items = 2
    /\ sleeps = 1
    /\ \E k \in 1..Len(batch_log) : batch_log[k] = [item |-> 1, event |-> "CRITICAL_ERROR"]

\* C27: a returned result has status SUCCESS exactly when local_filepath is
\* set, and then a document was obtained.
C27_SuccessIffStored ==
    pc = "returned" =>
      /\ Status = "SUCCESS" <=> Truthy(summary_data.local_filepath)
      /\ Truthy(summary_data.local_filepath) =>
           (Truthy(pdf_content)
              /\ (CallRes("download_direct", "ok") \/ CallRes("download_scihub", "ok")))

\* C27 witness: the document came from the fallback, the write failed and the
\* result returned is a failure without local_filepath.
C27_Witness ==
    /\ pc = "returned"
    /\ CallRes("download_scihub", "ok")
    /\ Status = "FAILURE_SAVE_PDF"
    /\ ~Truthy(summary_data.local_filepath)

\* C28: the status is FAILURE_INPUT_ERROR only when no identifier is
\* populated, and the processing of a DOI whose metadata lookup did not
\* return ends only after the fallback stage was entered.
C28_InputErrorOnlyWithoutIdentifier ==
    /\ Status = "FAILURE_INPUT_ERROR" => NoIdentifier
    /\ (Truthy(identifier_doi) /\ pc \in { "returned", "exited" }
          /\ ~CallRes("get_paper_metadata", "ok")) =>
         Truthy(summary_data.scihub_page_url_tried)

CallCount(fn) == Cardinality({ k \in 1..Len(calls) : calls[k].fn = fn })

\* C29: for one identifier each of the four stages is invoked at most once;
\* a session is open only inside the extractor, is quit at most once, and
\* none exists before the fallback stage of an identifier.
C29_NoRetries ==
    /\ \A fn \in { "get_paper_metadata", "download_direct", Extractor, "download_scihub" } :
         CallCount(fn) <= 1
    /\ session.state = "open" => InExtractor
    /\ session.quit_calls <= 1
    /\ pc \in { "idle", "stage1", "direct", "stage2" } =>
         (session.state = "none" /\ driver = "None")

\* C29 witness: all four stages ran, once each, and the result returned.
C29_Witness ==
    /\ pc = "returned"
    /\ Len(calls) = 4
    /\ CallRes("download_direct", "NotFoundError")
    /\ HasCall(Extractor)
    /\ HasCall("download_scihub")

\* C30: the extractor hands the orchestrator a link only when the link is not
\* empty, so the status FAILURE_SCIHUB_NO_URL is never set.
C30_NoEmptyLink ==
    /\ pc = "fb_download" => (Truthy(scihub_pdf_url_retrieved) /\ sel_exc = "none")
    /\ Status # "FAILURE_SCIHUB_NO_URL"

\* C30 witness: the extractor returned a link and the cookies of the session.
C30_Witness ==
    /\ pc = "fb_download"
    /\ sel_last.stage = "finally"
    /\ Truthy(scihub_pdf_url_retrieved)
    /\ selenium_cookies = "cookies"

====
